---------------------------- MODULE Spec2Model ----------------------------
(***************************************************************************)
(* PPE compliance monitor: the sticky compliance-state aggregator          *)
(* (src/state_manager.py) and the per-frame loop that drives it (main.py). *)
(***************************************************************************)
EXTENDS Integers, Sequences, FiniteSets, TLC

VARIABLES
    ppe_items,        \* StateManager.ppe_items: the configured list of monitored items
    tracked_persons,  \* StateManager.tracked_persons: dict track_id -> TrackedPerson, in insertion order
    call,             \* the last completed StateManager call: its arguments, the records before it, its outcome
    todo,             \* observation sequence still to be fed to one item of one record
    fed,              \* observation sequence fed so far
    tracker_config,   \* config['tracker']: max_age, min_hits, iou_threshold
    run_detection_every_n_frames,
    pc,               \* where main() is: "start", "loop", "finished" or "error"
    frame_num,        \* the number enumerate() gives the next frame
    tracker,          \* the Sort instance: its tracks and its id counter
    tracked_objects,  \* what tracker.update returned for the last frame
    log_output,       \* the record printed for the last frame
    emitted,          \* how many per-frame records were printed
    frame_io,         \* the last frame's inputs: detector result, association, observer results
    video,            \* the capture of read_video_frames: "unopened", "opened", "failed" or "ended"
    error_report,     \* what the handlers around main() printed for an exception
    scenario,         \* how many frames, all so far, followed the end-to-end scenario's inputs
    crop              \* the last crop_bbox_from_frame call made on its own: its box and the shape returned

smVars == <<ppe_items, tracked_persons, call>>

toggleVars == <<todo, fed>>

loopVars == <<tracker_config, run_detection_every_n_frames, pc, frame_num, tracker,
              tracked_objects, log_output, emitted, frame_io, scenario, video, error_report>>

cropVars == <<crop>>

vars == <<ppe_items, tracked_persons, call, todo, fed, tracker_config,
          run_detection_every_n_frames, pc, frame_num, tracker, tracked_objects,
          log_output, emitted, frame_io, scenario, crop, video, error_report>>

(***************************************************************************)
(* Python strings are sequences of characters, so that str.upper() is a    *)
(* computation and not the identity.                                       *)
(***************************************************************************)
LowerChars == <<"a","b","c","d","e","f","g","h","i","j","k","l","m",
                "n","o","p","q","r","s","t","u","v","w","x","y","z">>

UpperChars == <<"A","B","C","D","E","F","G","H","I","J","K","L","M",
                "N","O","P","Q","R","S","T","U","V","W","X","Y","Z">>

\* The upper-case letter of each lower-case letter; every other character maps to itself.
UpperChar(c) ==
    IF \E i \in DOMAIN LowerChars : LowerChars[i] = c
    THEN UpperChars[CHOOSE i \in DOMAIN LowerChars : LowerChars[i] = c]
    ELSE c

Chars == {LowerChars[i] : i \in DOMAIN LowerChars} \cup {UpperChars[i] : i \in DOMAIN UpperChars} \cup {"_"}

UpperTable == [c \in Chars |-> UpperChar(c)]

\* str.upper(), and no normalisation in its place.
Upper_Identity(s) == s

Upper(s) == [i \in DOMAIN s |-> UpperTable[s[i]]]

\* A Python value handed over as an observation: a str or None.
PyStr(s) == [py |-> "str", s |-> s]
PyNone == [py |-> "NoneType", s |-> <<>>]

\* ComplianceState: the members are named by TLA+ strings, their .value is the Python string.
ComplianceState == {"UNKNOWN", "COMPLIANT", "NON_COMPLIANT"}

EnumValueUNKNOWN == <<"U","N","K","N","O","W","N">>

EnumValueCOMPLIANT == <<"C","O","M","P","L","I","A","N","T">>

EnumValueNON_COMPLIANT == <<"N","O","N","_","C","O","M","P","L","I","A","N","T">>

EnumValue(m) ==
    CASE m = "UNKNOWN" -> EnumValueUNKNOWN
      [] m = "COMPLIANT" -> EnumValueCOMPLIANT
      [] m = "NON_COMPLIANT" -> EnumValueNON_COMPLIANT

\* ComplianceState(v): lookup by value; "ValueError" when no member has the value v.
EnumLookup(v) ==
    CASE v = EnumValueUNKNOWN -> "UNKNOWN"
      [] v = EnumValueCOMPLIANT -> "COMPLIANT"
      [] v = EnumValueNON_COMPLIANT -> "NON_COMPLIANT"
      [] OTHER -> "ValueError"

(***************************************************************************)
(* TrackedPerson                                                           *)
(***************************************************************************)
SeqRange(s) == {s[i] : i \in DOMAIN s}

\* TrackedPerson.__init__: every item of ppe_items at UNKNOWN.
NewPpeStatus_FirstItemOnly(items) ==
    [item \in (IF items = <<>> THEN {} ELSE {items[1]}) |-> "UNKNOWN"]

NewPpeStatus(items) == [item \in SeqRange(items) |-> "UNKNOWN"]

\* The sticky rules 1-4 of update_ppe_status for one item: the new state of the item.
StickyUpdate_Overwrite(current_state, observed_state) == observed_state

StickyUpdate_NoToggleBack(current_state, observed_state) ==
    IF observed_state = "UNKNOWN" THEN current_state
    ELSE IF current_state = "UNKNOWN" THEN observed_state
    ELSE IF current_state = "COMPLIANT" /\ observed_state = "NON_COMPLIANT" THEN observed_state
    ELSE current_state

StickyUpdate(current_state, observed_state) ==
    IF observed_state = "UNKNOWN" THEN current_state
    ELSE IF current_state = "UNKNOWN" THEN observed_state
    ELSE IF current_state = "COMPLIANT"
         THEN (IF observed_state = "NON_COMPLIANT" THEN observed_state ELSE current_state)
    ELSE IF current_state = "NON_COMPLIANT"
         THEN (IF observed_state = "COMPLIANT" THEN observed_state ELSE current_state)
    ELSE current_state

\* One iteration of the loop of update_ppe_status: the status after it, and the
\* exception that leaves the loop ("none" when the iteration ends normally).
ObserveItem_NoKeyCheck(ppe_status, item, observed_state_str) ==
    IF observed_state_str.py # "str"
    THEN [ppe_status |-> ppe_status, exc |-> "AttributeError"]
    ELSE LET observed_state == EnumLookup(Upper(observed_state_str.s))
             current_state == IF item \in DOMAIN ppe_status THEN ppe_status[item] ELSE "UNKNOWN"
         IN IF observed_state = "ValueError"
            THEN [ppe_status |-> ppe_status, exc |-> "none"]
            ELSE [ppe_status |-> [i \in DOMAIN ppe_status \cup {item} |->
                                    IF i = item THEN StickyUpdate(current_state, observed_state)
                                    ELSE ppe_status[i]],
                  exc |-> "none"]

ObserveItem(ppe_status, item, observed_state_str) ==
    IF item \notin DOMAIN ppe_status
    THEN [ppe_status |-> ppe_status, exc |-> "none"]
    ELSE IF observed_state_str.py # "str"
    THEN [ppe_status |-> ppe_status, exc |-> "AttributeError"]
    ELSE LET observed_state == EnumLookup(Upper(observed_state_str.s))
         IN IF observed_state = "ValueError"
            THEN [ppe_status |-> ppe_status, exc |-> "none"]
            ELSE [ppe_status |-> [ppe_status EXCEPT ![item] =
                                    StickyUpdate(ppe_status[item], observed_state)],
                  exc |-> "none"]

\* TrackedPerson.update_ppe_status: new_observations is a dict, iterated in its
\* insertion order: a sequence of <<item, value>> pairs with distinct items.
RECURSIVE update_ppe_status(_, _)
update_ppe_status(ppe_status, new_observations) ==
    IF new_observations = <<>>
    THEN [ppe_status |-> ppe_status, exc |-> "none"]
    ELSE LET r == ObserveItem(ppe_status, Head(new_observations)[1], Head(new_observations)[2])
         IN IF r.exc # "none" THEN r
            ELSE update_ppe_status(r.ppe_status, Tail(new_observations))

\* TrackedPerson.get_status_dict
get_status_dict(person) ==
    [track_id |-> person.track_id,
     ppe_status |-> [item \in DOMAIN person.ppe_status |-> EnumValue(person.ppe_status[item])]]

(***************************************************************************)
(* StateManager.  tracked_persons is a sequence of TrackedPerson records   *)
(* [track_id, ppe_status] with distinct track ids, in insertion order.     *)
(***************************************************************************)
Keys(persons) == {persons[i].track_id : i \in DOMAIN persons}

Person(persons, track_id) ==
    persons[CHOOSE i \in DOMAIN persons : persons[i].track_id = track_id]

\* StateManager.update_person_state: the records after the call and the exception it raises.
update_person_state_AlwaysNew(persons, items, track_id, ppe_observations) ==
    LET fresh == [track_id |-> track_id, ppe_status |-> NewPpeStatus(items)]
        r == update_ppe_status(fresh.ppe_status, ppe_observations)
        rest == SelectSeq(persons, LAMBDA p : p.track_id # track_id)
    IN [persons |-> Append(rest, [fresh EXCEPT !.ppe_status = r.ppe_status]), exc |-> r.exc]

\* (An update that applies the observations to every record.)
update_person_state_AllRecords(persons, items, track_id, ppe_observations) ==
    LET with_new == IF track_id \notin Keys(persons)
                    THEN Append(persons, [track_id |-> track_id,
                                          ppe_status |-> NewPpeStatus(items)])
                    ELSE persons
    IN [persons |-> [i \in DOMAIN with_new |->
                        [with_new[i] EXCEPT !.ppe_status =
                            update_ppe_status(with_new[i].ppe_status, ppe_observations).ppe_status]],
        exc |-> update_ppe_status(Person(with_new, track_id).ppe_status, ppe_observations).exc]

update_person_state(persons, items, track_id, ppe_observations) ==
    LET with_new == IF track_id \notin Keys(persons)
                    THEN Append(persons, [track_id |-> track_id,
                                          ppe_status |-> NewPpeStatus(items)])
                    ELSE persons
        r == update_ppe_status(Person(with_new, track_id).ppe_status, ppe_observations)
    IN [persons |-> [i \in DOMAIN with_new |->
                        IF with_new[i].track_id = track_id
                        THEN [with_new[i] EXCEPT !.ppe_status = r.ppe_status]
                        ELSE with_new[i]],
        exc |-> r.exc]

\* StateManager.get_all_statuses
get_all_statuses(persons) == [i \in DOMAIN persons |-> get_status_dict(persons[i])]

\* StateManager.remove_stale_tracks
remove_stale_tracks_Inverted(persons, active_track_ids) ==
    SelectSeq(persons, LAMBDA p : p.track_id \notin active_track_ids)

remove_stale_tracks(persons, active_track_ids) ==
    LET stale_ids == Keys(persons) \ active_track_ids
    IN SelectSeq(persons, LAMBDA p : p.track_id \notin stale_ids)

(***************************************************************************)
(* The tracker (Sort, imported by main.py from src.tracker).  Boxes are    *)
(* <<x1, y1, x2, y2>> of fixed-point floats; an IoU is a fraction          *)
(* <<num, den>>.                                                           *)
(***************************************************************************)
Max(a, b) == IF a >= b THEN a ELSE b

Min(a, b) == IF a <= b THEN a ELSE b

Area(box) == (box[3] - box[1]) * (box[4] - box[2])

Intersection(a, b) ==
    Max(0, Min(a[3], b[3]) - Max(a[1], b[1])) * Max(0, Min(a[4], b[4]) - Max(a[2], b[2]))

IoU(a, b) == <<Intersection(a, b), Area(a) + Area(b) - Intersection(a, b)>>

FracGeq(f, g) == f[1] * g[2] >= g[1] * f[2]

FracAdd(f, g) == <<f[1] * g[2] + g[1] * f[2], f[2] * g[2]>>

\* MotionModel.predict: position advances by the velocity, velocity unchanged.
predict(track) ==
    [track EXCEPT !.box = <<@[1] + track.vel[1], @[2] + track.vel[2],
                            @[3] + track.vel[1], @[4] + track.vel[2]>>]

\* MotionModel.correct on a predicted track: the estimate moves onto the
\* detection (gain 1), the velocity takes up the innovation.
correct(track, detection) ==
    [track EXCEPT !.box = detection,
                  !.vel = <<@[1] + detection[1] - track.box[1], @[2] + detection[2] - track.box[2]>>,
                  !.time_since_update = 0,
                  !.hit_streak = @ + 1]

\* Step 4: an unmatched track.
miss_NoMaxAge(track, max_age) ==
    [track EXCEPT !.time_since_update = @ + 1, !.hit_streak = 0, !.lifecycle_state = "DEAD"]

miss_NeverDead(track, max_age) ==
    [track EXCEPT !.time_since_update = @ + 1, !.hit_streak = 0]

miss(track, max_age) ==
    [track EXCEPT !.time_since_update = @ + 1,
                  !.hit_streak = 0,
                  !.lifecycle_state = IF track.time_since_update + 1 > max_age THEN "DEAD" ELSE @]

\* Step 5: a new track from an unmatched detection; the detection that
\* creates it is its first hit (section 8's scenario reports a track in the
\* frame that creates it when min_hits = 1).
NewTrack(id, detection) ==
    [id |-> id, box |-> detection, vel |-> <<0, 0>>, hit_streak |-> 1, age |-> 0,
     time_since_update |-> 0, lifecycle_state |-> "TENTATIVE"]

\* Step 6: promotion.
promote_Always(track, min_hits) ==
    IF track.lifecycle_state = "TENTATIVE" THEN [track EXCEPT !.lifecycle_state = "CONFIRMED"]
    ELSE track

promote(track, min_hits) ==
    IF track.lifecycle_state = "TENTATIVE" /\ track.hit_streak >= min_hits
    THEN [track EXCEPT !.lifecycle_state = "CONFIRMED"]
    ELSE track

\* Associator: gating.
Gated(track_box, detection, iou_threshold) == FracGeq(IoU(track_box, detection), iou_threshold)

\* A matching gives each track the index of its detection, 0 when unmatched.
Matchings(boxes, detections, iou_threshold) ==
    {m \in [DOMAIN boxes -> 0..Len(detections)] :
        /\ \A i, j \in DOMAIN boxes : (i # j /\ m[i] # 0) => m[i] # m[j]
        /\ \A i \in DOMAIN boxes : m[i] # 0 => Gated(boxes[i], detections[m[i]], iou_threshold)}

MatchSize(m) == Cardinality({i \in DOMAIN m : m[i] # 0})

RECURSIVE TotalIoU(_, _, _, _)
TotalIoU(m, boxes, detections, i) ==
    IF i > Len(boxes) THEN <<0, 1>>
    ELSE FracAdd(IF m[i] = 0 THEN <<0, 1>> ELSE IoU(boxes[i], detections[m[i]]),
                 TotalIoU(m, boxes, detections, i + 1))

LexKey(m, n) == [i \in DOMAIN m |-> IF m[i] = 0 THEN n + 1 ELSE m[i]]

LexLeq(a, b) ==
    \/ a = b
    \/ \E i \in DOMAIN a : a[i] < b[i] /\ \A j \in 1..(i - 1) : a[j] = b[j]

\* Associator: excluded pairs cost +infinity, so an optimum matches as many
\* pairs as the gate allows; among those the total cost 1 - IoU is least;
\* ties go to the first in the order of track id, then detection index.
\* A scored matching is <<matching, size, total IoU>>.
Preferred(s, t, n) ==
    \/ s[2] > t[2]
    \/ /\ s[2] = t[2]
       /\ \/ ~FracGeq(t[3], s[3])
          \/ FracGeq(s[3], t[3]) /\ LexLeq(LexKey(s[1], n), LexKey(t[1], n))

associate(boxes, detections, iou_threshold) ==
    LET scored == {<<m, MatchSize(m), TotalIoU(m, boxes, detections, 1)>> :
                        m \in Matchings(boxes, detections, iou_threshold)}
    IN (CHOOSE s \in scored : \A t \in scored : Preferred(s, t, Len(detections)))[1]

\* TrackLifecycleManager.step = Sort.update: the tracker after the step, the
\* boxes it returns and the association it made.
Sort_update(trk, detections, config) ==
    LET predicted == [i \in DOMAIN trk.trackers |-> predict(trk.trackers[i])]
        m == associate([i \in DOMAIN predicted |-> predicted[i].box], detections, config.iou_threshold)
        stepped == [i \in DOMAIN predicted |->
                      IF m[i] # 0 THEN correct(predicted[i], detections[m[i]])
                      ELSE miss(predicted[i], config.max_age)]
        survivors == SelectSeq(stepped, LAMBDA t : t.lifecycle_state # "DEAD")
        unmatched == SelectSeq([k \in DOMAIN detections |-> k],
                               LAMBDA k : \A i \in DOMAIN m : m[i] # k)
        created == [k \in DOMAIN unmatched |-> NewTrack(trk.next_id + k - 1, detections[unmatched[k]])]
        alive == survivors \o created
        aged == [i \in DOMAIN alive |->
                    [promote(alive[i], config.min_hits) EXCEPT !.age = @ + 1]]
        confirmed == SelectSeq(aged, LAMBDA t : t.lifecycle_state = "CONFIRMED")
    IN [tracker |-> [trackers |-> aged, next_id |-> trk.next_id + Len(unmatched)],
        tracked_objects |-> [i \in DOMAIN confirmed |->
                                [track_id |-> confirmed[i].id, bbox |-> confirmed[i].box]],
        matched |-> {<<predicted[i].id, m[i]>> : i \in {j \in DOMAIN m : m[j] # 0}}]

(***************************************************************************)
(* The StateManager driven through its three methods by an arbitrary       *)
(* caller.                                                                 *)
(***************************************************************************)
\* An item name an observation may carry besides the monitored ones.
UnmonitoredItem == "gloves"

\* The configurations of ppe_items.
ItemConfigs == {<<"helmet">>, <<"helmet", "glasses">>}

\* The track ids the caller uses: two persons when one item is monitored, one
\* person when two are.
CallerIds(items) == IF Len(items) = 1 THEN {1, 2} ELSE {1}

ObsValues ==
    { PyStr(EnumValueCOMPLIANT),
      PyStr(EnumValueNON_COMPLIANT),
      PyStr(EnumValueUNKNOWN),
      PyStr(<<"c","o","m","p","l","i","a","n","t">>),
      PyStr(<<"N","o","n","_","C","o","m","p","l","i","a","n","t">>),
      PyStr(<<"M","A","Y","B","E">>),
      PyNone }

\* Every dict with keys among `keys` (inserted in that order) and values in ObsValues.
RECURSIVE DictsOver(_)
DictsOver(keys) ==
    IF keys = <<>> THEN {<<>>}
    ELSE LET rest == DictsOver(Tail(keys))
         IN rest \cup {<<<<Head(keys), v>>>> \o d : v \in ObsValues, d \in rest}

\* With one monitored item the observations also carry the unmonitored item.
ObsDicts1 == DictsOver(<<"helmet", UnmonitoredItem>>)

ObsDicts2 == DictsOver(<<"helmet", "glasses">>)

ObsDicts(items) == IF Len(items) = 1 THEN ObsDicts1 ELSE ObsDicts2

\* The frame loop's variables when main() is not running.
NoTracker == [trackers |-> <<>>, next_id |-> 1]

NoLogOutput == [frame_number |-> -1, active_tracks |-> 0, compliance_status |-> <<>>]

\* What a frame took in: whether the detector ran, its detections, the
\* tracker and the record ids before the frame, the association, the
\* verifier's calls.
NoFrameIo == [invoked |-> FALSE, detections |-> <<>>, before |-> NoTracker, records_before |-> {},
              matched |-> {}, observed |-> <<>>]

NoScenario == [stated |-> 0, amended |-> 0]

NoErrorReport == [handler |-> "none", printed |-> {}]

LoopIdle ==
    /\ video = "unopened"
    /\ error_report = NoErrorReport
    /\ tracker_config = [max_age |-> 1, min_hits |-> 1, iou_threshold |-> <<3, 10>>]
    /\ run_detection_every_n_frames = 1
    /\ pc = "idle"
    /\ frame_num = 0
    /\ tracker = NoTracker
    /\ tracked_objects = <<>>
    /\ log_output = NoLogOutput
    /\ emitted = 0
    /\ frame_io = NoFrameIo
    /\ scenario = NoScenario

NoCrop == [op |-> "none", bbox |-> <<>>, shape |-> [h |-> 0, w |-> 0]]

NoCall == [op |-> "none", track_id |-> 0, obs |-> <<>>, active |-> {},
           pre |-> <<>>, exc |-> "none", ret |-> <<>>]

Init ==
    /\ ppe_items \in ItemConfigs
    /\ tracked_persons = <<>>
    /\ call = NoCall
    /\ todo = <<>>
    /\ fed = <<>>
    /\ LoopIdle
    /\ crop = NoCrop

Update(track_id, obs) ==
    LET r == update_person_state(tracked_persons, ppe_items, track_id, obs)
    IN /\ tracked_persons' = r.persons
       /\ call' = [NoCall EXCEPT !.op = "update", !.track_id = track_id, !.obs = obs,
                                 !.pre = tracked_persons, !.exc = r.exc]
       /\ UNCHANGED <<ppe_items, toggleVars, cropVars, loopVars>>

Prune(active) ==
    /\ tracked_persons' = remove_stale_tracks(tracked_persons, active)
    /\ call' = [NoCall EXCEPT !.op = "prune", !.active = active, !.pre = tracked_persons]
    /\ UNCHANGED <<ppe_items, toggleVars, cropVars, loopVars>>

Snapshot ==
    /\ call' = [NoCall EXCEPT !.op = "snapshot", !.pre = tracked_persons,
                              !.ret = get_all_statuses(tracked_persons)]
    /\ UNCHANGED <<ppe_items, tracked_persons, toggleVars, cropVars, loopVars>>

Next ==
    \/ \E track_id \in CallerIds(ppe_items), obs \in ObsDicts(ppe_items) : Update(track_id, obs)
    \/ \E active \in SUBSET CallerIds(ppe_items) : Prune(active)
    \/ Snapshot

Spec == Init /\ [][Next]_vars

(***************************************************************************)
(* One record fed a sequence of observations for one item, one update per  *)
(* observation.                                                            *)
(***************************************************************************)
MaxSeq == 3

RECURSIVE SeqsUpTo(_)
SeqsUpTo(n) ==
    IF n = 0 THEN {<<>>}
    ELSE LET shorter == SeqsUpTo(n - 1)
         IN shorter \cup {Append(q, v) : q \in {x \in shorter : Len(x) = n - 1}, v \in ObsValues}

InitToggle ==
    /\ ppe_items = <<"helmet">>
    /\ tracked_persons = <<>>
    /\ call = NoCall
    /\ todo \in SeqsUpTo(MaxSeq)
    /\ fed = <<>>
    /\ LoopIdle
    /\ crop = NoCrop

Feed ==
    /\ todo # <<>>
    /\ LET obs == <<<<"helmet", Head(todo)>>>>
           r == update_person_state(tracked_persons, ppe_items, 1, obs)
       IN /\ tracked_persons' = r.persons
          /\ call' = [NoCall EXCEPT !.op = "update", !.track_id = 1, !.obs = obs,
                                    !.pre = tracked_persons, !.exc = r.exc]
    /\ todo' = Tail(todo)
    /\ fed' = Append(fed, Head(todo))
    /\ UNCHANGED <<ppe_items, cropVars, loopVars>>

NextToggle == Feed

SpecToggle == InitToggle /\ [][NextToggle]_vars

(***************************************************************************)
(* main(): the per-frame loop.                                             *)
(***************************************************************************)
\* A float coordinate is a whole number of 1/FloatDen pixels.
FloatDen == 2

ToFloat(n) == n * FloatDen

\* ndarray.astype(int): truncation toward zero.
AsTypeInt(x) == IF x >= 0 THEN x \div FloatDen ELSE -((-x) \div FloatDen)

\* The index a slice bound i stands for in a dimension of length n.
PySliceIndex(n, i) == IF i < 0 THEN Max(i + n, 0) ELSE Min(i, n)

PySliceLen(n, start, stop) == Max(0, PySliceIndex(n, stop) - PySliceIndex(n, start))

\* crop_bbox_from_frame: the shape of the crop of a frame of shape (h, w, 3).
crop_bbox_from_frame(frame, bbox) ==
    LET x1 == Max(0, AsTypeInt(bbox[1]))
        y1 == Max(0, AsTypeInt(bbox[2]))
        x2 == Min(frame.w, AsTypeInt(bbox[3]))
        y2 == Min(frame.h, AsTypeInt(bbox[4]))
    IN [h |-> PySliceLen(frame.h, y1, y2), w |-> PySliceLen(frame.w, x1, x2)]

\* ndarray.size of an array of shape (h, w, 3)
ArraySize(a) == a.h * a.w * 3

POSSIBLE_STATES == {PyStr(EnumValueCOMPLIANT), PyStr(EnumValueNON_COMPLIANT), PyStr(EnumValueUNKNOWN)}

\* verify_ppe: the dicts random.choices can produce, one entry per item of ppe_items.
RECURSIVE verify_ppe(_)
verify_ppe(items) ==
    IF items = <<>> THEN {<<>>}
    ELSE {<<<<Head(items), state>>>> \o d : state \in POSSIBLE_STATES, d \in verify_ppe(Tail(items))}

\* Lines 76-92: the loop over the tracked objects; `answers` gives the
\* verifier's result for each track it is called for.
\* (First: a loop that an empty crop ends, `break` for `continue`.)
RECURSIVE process_tracks_BreakOnEmpty(_, _, _, _, _)
process_tracks_BreakOnEmpty(persons, items, frame, objects, answers) ==
    IF objects = <<>> THEN [persons |-> persons, exc |-> "none"]
    ELSE LET track_id == Head(objects).track_id
             cropped_person == crop_bbox_from_frame(frame, Head(objects).bbox)
         IN IF ArraySize(cropped_person) = 0
            THEN [persons |-> persons, exc |-> "none"]
            ELSE LET r == update_person_state(persons, items, track_id, answers[track_id])
                 IN IF r.exc # "none" THEN r
                    ELSE process_tracks_BreakOnEmpty(r.persons, items, frame, Tail(objects), answers)

RECURSIVE process_tracks(_, _, _, _, _)
process_tracks(persons, items, frame, objects, answers) ==
    IF objects = <<>> THEN [persons |-> persons, exc |-> "none"]
    ELSE LET track_id == Head(objects).track_id
             cropped_person == crop_bbox_from_frame(frame, Head(objects).bbox)
             r == IF ArraySize(cropped_person) = 0
                  THEN [persons |-> persons, exc |-> "none"]
                  ELSE update_person_state(persons, items, track_id, answers[track_id])
         IN IF r.exc # "none" THEN r
            ELSE process_tracks(r.persons, items, frame, Tail(objects), answers)

\* The tracks of a tracker output whose crop is not empty: the verifier is called for these.
Verified(frame, objects) ==
    SelectSeq(objects, LAMBDA o :
        ArraySize(crop_bbox_from_frame(frame, o.bbox)) # 0)

\* Line 95 as written, and without it.
prune_in_loop_Skipped(persons, active_track_ids) == persons

prune_in_loop(persons, active_track_ids) == remove_stale_tracks(persons, active_track_ids)

\* The video: frames of shape (FrameH, FrameW, 3), at most MaxFrames of them.
FrameW == 3

FrameH == 4

MaxFrames == 5

\* What the detector can return for a frame: at most MaxDets of these boxes.
PixelBox(x1, y1, x2, y2) == <<ToFloat(x1), ToFloat(y1), ToFloat(x2), ToFloat(y2)>>

\* A box that lies within the pixel column x: its crop is empty.
ThinBox(x, y1, y2) == <<ToFloat(x), ToFloat(y1), ToFloat(x) + 1, ToFloat(y2)>>

DetBoxes == {PixelBox(0, 0, 2, 2), PixelBox(1, 0, 3, 2), PixelBox(1, 2, 3, 4), ThinBox(1, 0, 2)}

MaxDets == 1

RECURSIVE DetSeqs(_)
DetSeqs(n) ==
    IF n = 0 THEN {<<>>}
    ELSE LET shorter == DetSeqs(n - 1)
         IN shorter \cup {Append(q, b) : q \in {x \in shorter : Len(x) = n - 1},
                                         b \in DetBoxes}

Detections == {q \in DetSeqs(MaxDets) : \A i, j \in DOMAIN q : i # j => q[i] # q[j]}

\* The configurations main() is run with: the tracker's max_age and min_hits
\* (iou_threshold is 0.3 in each) and run_detection_every_n_frames.
LoopConfigs ==
    {[max_age |-> 2, min_hits |-> 1, period |-> 1],
     [max_age |-> 1, min_hits |-> 3, period |-> 1],
     [max_age |-> 1, min_hits |-> 1, period |-> 2]}

\* The end-to-end scenario of section 8: whether a frame's inputs are those of
\* the scenario's frame k.  `stated` takes the inputs the scenario states;
\* `amended` also takes, in frames 3 and 4, an observer that does not report
\* NON_COMPLIANT.
AllObserved(observed, states) ==
    \A i \in DOMAIN observed : \A j \in DOMAIN observed[i].obs : observed[i].obs[j][2] \in states

ScenarioFrame(k, trk, config, detections, observed, amended) ==
    CASE k = 1 -> /\ Len(detections) = 1
                  /\ observed # <<>>
                  /\ AllObserved(observed, {PyStr(EnumValueUNKNOWN)})
      [] k = 2 -> /\ Len(detections) = 1
                  /\ \E i \in DOMAIN trk.trackers :
                        Gated(predict(trk.trackers[i]).box, detections[1], config.iou_threshold)
                  /\ observed # <<>>
                  /\ AllObserved(observed, {PyStr(EnumValueCOMPLIANT)})
      [] k \in {3, 4} -> /\ detections = <<>>
                         /\ amended => AllObserved(observed, {PyStr(EnumValueUNKNOWN),
                                                              PyStr(EnumValueCOMPLIANT)})
      [] k = 5 -> detections = <<>>
      [] OTHER -> FALSE

ScenarioNext(count, k, trk, config, detections, observed, amended) ==
    IF count = k - 1 /\ ScenarioFrame(k, trk, config, detections, observed, amended)
    THEN k ELSE -1

InitMain ==
    /\ ppe_items = <<"helmet">>
    /\ tracked_persons = <<>>
    /\ call = NoCall
    /\ todo = <<>>
    /\ fed = <<>>
    /\ \E c \in LoopConfigs :
          /\ tracker_config = [max_age |-> c.max_age, min_hits |-> c.min_hits, iou_threshold |-> <<3, 10>>]
          /\ run_detection_every_n_frames = c.period
    /\ pc = "start"
    /\ frame_num = 0
    /\ tracker = NoTracker
    /\ tracked_objects = <<>>
    /\ log_output = NoLogOutput
    /\ emitted = 0
    /\ frame_io = NoFrameIo
    /\ scenario = NoScenario
    /\ video = "unopened"
    /\ error_report = NoErrorReport
    /\ crop = NoCrop

\* An exception: its type and the values its message is formatted from.
\* video.py line 26 puts the path in the message; no callee of the loop is
\* given frame_num, so no exception raised in one carries it.
FileNotFoundError == [type |-> "FileNotFoundError", args |-> {<<"video_path", "video_stream">>}]

RaisedIn(type) == [type |-> type, args |-> {}]

\* The handlers of lines 110-119: each prints a fixed text and str(e).
main_handler(e) ==
    [handler |-> IF e.type = "FileNotFoundError" THEN "FileNotFoundError" ELSE "Exception",
     printed |-> e.args]

\* The first next() of read_video_frames: the capture opens, or
\* FileNotFoundError; and a generator that does not look at isOpened().
OpenVideo_NoCheck(opened) ==
    /\ pc = "start"
    /\ pc' = "loop"
    /\ video' = IF opened THEN "opened" ELSE "failed"
    /\ UNCHANGED <<smVars, toggleVars, cropVars, tracker_config, run_detection_every_n_frames, frame_num,
                   tracker, tracked_objects, log_output, emitted, frame_io, scenario, error_report>>

OpenVideo(opened) ==
    /\ pc = "start"
    /\ pc' = IF opened THEN "loop" ELSE "error"
    /\ video' = IF opened THEN "opened" ELSE "failed"
    /\ error_report' = IF opened THEN error_report ELSE main_handler(FileNotFoundError)
    /\ UNCHANGED <<smVars, toggleVars, cropVars, tracker_config, run_detection_every_n_frames, frame_num,
                   tracker, tracked_objects, log_output, emitted, frame_io, scenario>>

\* Line 57: whether the detector is called for this frame; and a loop that
\* calls it for every frame.
DetectorInvoked_EveryFrame(n, period) == TRUE

DetectorInvoked(n, period) == n % period = 0

\* Lines 72, 79: the ids of the tracked objects.
ActiveTrackIds(objects) == {objects[i].track_id : i \in DOMAIN objects}

\* The verifier calls of a frame, in order: the track and the result.
ObserverCalls(verified, answers) ==
    [i \in DOMAIN verified |-> [track_id |-> verified[i].track_id, obs |-> answers[verified[i].track_id]]]

\* Lines 101-105, and with a frame number that does not follow the frames.
LogOutput_FixedFrameNumber(n, all_statuses) ==
    [frame_number |-> 0, active_tracks |-> Len(all_statuses), compliance_status |-> all_statuses]

LogOutput(n, all_statuses) ==
    [frame_number |-> n, active_tracks |-> Len(all_statuses), compliance_status |-> all_statuses]

\* One iteration of the loop, lines 54-106; `found` is what detect_persons
\* returns for the frame when it is called.  Each \E over a one-element set
\* names a value the iteration computes once.
Frame(found) ==
    /\ pc = "loop"
    /\ frame_num < MaxFrames
    /\ ~DetectorInvoked(frame_num, run_detection_every_n_frames) => found = <<>>
    /\ \E frame \in {[h |-> FrameH, w |-> FrameW]},
          detections \in {IF DetectorInvoked(frame_num, run_detection_every_n_frames) THEN found ELSE <<>>} :
        \E step \in {Sort_update(tracker, detections, tracker_config)} :
        \E verified \in {Verified(frame, step.tracked_objects)} :
        \E answers \in [ActiveTrackIds(verified) -> verify_ppe(ppe_items)] :
        \E r \in {process_tracks(tracked_persons, ppe_items, frame, step.tracked_objects, answers)} :
        \E pruned \in {prune_in_loop(r.persons, ActiveTrackIds(step.tracked_objects))} :
           /\ tracker' = step.tracker
           /\ tracked_objects' = step.tracked_objects
           /\ frame_io' = [invoked |-> DetectorInvoked(frame_num, run_detection_every_n_frames),
                           detections |-> detections, before |-> tracker,
                           records_before |-> Keys(tracked_persons), matched |-> step.matched,
                           observed |-> ObserverCalls(verified, answers)]
           /\ scenario' = [stated |-> ScenarioNext(scenario.stated, frame_num + 1, tracker, tracker_config,
                                                  detections, ObserverCalls(verified, answers), FALSE),
                           amended |-> ScenarioNext(scenario.amended, frame_num + 1, tracker, tracker_config,
                                                   detections, ObserverCalls(verified, answers), TRUE)]
           /\ IF r.exc = "none"
              THEN /\ tracked_persons' = pruned
                   /\ log_output' = LogOutput(frame_num, get_all_statuses(pruned))
                   /\ emitted' = emitted + 1
                   /\ frame_num' = frame_num + 1
                   /\ pc' = "loop"
                   /\ error_report' = error_report
              ELSE /\ tracked_persons' = r.persons
                   /\ pc' = "error"
                   /\ error_report' = main_handler(RaisedIn(r.exc))
                   /\ UNCHANGED <<log_output, emitted, frame_num>>
    /\ UNCHANGED <<ppe_items, call, toggleVars, cropVars, tracker_config, run_detection_every_n_frames,
                   video>>

\* cap.read() returns ret = False: the generator ends, the loop is left.
EndOfVideo ==
    /\ pc = "loop"
    /\ pc' = "finished"
    /\ video' = "ended"
    /\ UNCHANGED <<smVars, toggleVars, cropVars, tracker_config, run_detection_every_n_frames, frame_num,
                   tracker, tracked_objects, log_output, emitted, frame_io, scenario, error_report>>

NextMain ==
    \/ \E opened \in BOOLEAN : OpenVideo(opened)
    \/ \E found \in Detections : Frame(found)
    \/ EndOfVideo

SpecMain == InitMain /\ [][NextMain]_vars

\* main() with a detector that can fail: model(frame) at person_detector.py
\* line 47 raises; the exception leaves detect_persons and main() (line 58
\* is in no try) and reaches the handler of line 116.
DetectorFails ==
    /\ pc = "loop"
    /\ frame_num < MaxFrames
    /\ DetectorInvoked(frame_num, run_detection_every_n_frames)
    /\ pc' = "error"
    /\ error_report' = main_handler(RaisedIn("RuntimeError"))
    /\ UNCHANGED <<smVars, toggleVars, cropVars, tracker_config, run_detection_every_n_frames, frame_num,
                   tracker, tracked_objects, log_output, emitted, frame_io, scenario, video>>

NextFaulty ==
    \/ NextMain
    \/ DetectorFails

SpecMainFaulty == InitMain /\ [][NextFaulty]_vars

(***************************************************************************)
(* crop_bbox_from_frame called on its own, with a box of float coordinates *)
(* anywhere up to CropMargin pixels beyond the frame.                      *)
(***************************************************************************)
CropMargin == 2

\* Coordinates in units of 1/FloatDen pixel.
CropXs == (-CropMargin * FloatDen)..((FrameW + CropMargin) * FloatDen)

CropYs == (-CropMargin * FloatDen)..((FrameH + CropMargin) * FloatDen)

\* The boxes [x1, y1, x2, y2] with x1 < x2 and y1 < y2.
CropBoxes ==
    {<<x[1], y[1], x[2], y[2]>> : x \in {p \in CropXs \X CropXs : p[1] < p[2]},
                                  y \in {p \in CropYs \X CropYs : p[1] < p[2]}}

InitCrop ==
    /\ ppe_items = <<"helmet">>
    /\ tracked_persons = <<>>
    /\ call = NoCall
    /\ todo = <<>>
    /\ fed = <<>>
    /\ LoopIdle
    /\ crop \in {[NoCrop EXCEPT !.op = "pending", !.bbox = bbox] : bbox \in CropBoxes}

\* The call on the box drawn.
Crop ==
    /\ crop.op = "pending"
    /\ crop' = [crop EXCEPT !.op = "crop",
                            !.shape = crop_bbox_from_frame([h |-> FrameH, w |-> FrameW], crop.bbox)]
    /\ UNCHANGED <<smVars, toggleVars, loopVars>>

NextCrop == Crop

SpecCrop == InitCrop /\ [][NextCrop]_vars

(***************************************************************************)
(* Properties                                                              *)
(***************************************************************************)
Known(state) == state \in {"COMPLIANT", "NON_COMPLIANT"}

\* The observation dict `obs` maps `item` to the value `v`.
HasObs(obs, item, v) == \E k \in DOMAIN obs : obs[k] = <<item, v>>

\* The state of `item` in the record of `track_id`, "absent" without such a record or item.
StateOf(persons, track_id, item) ==
    IF track_id \in Keys(persons) /\ item \in DOMAIN Person(persons, track_id).ppe_status
    THEN Person(persons, track_id).ppe_status[item]
    ELSE "absent"

\* C1 (sticky monotonicity): after an update whose observation for an item is
\* UNKNOWN, an item that was COMPLIANT or NON_COMPLIANT before the update has
\* the state it had before.
C1_StickyMonotonicity ==
    call.op = "update" =>
        \A item \in SeqRange(ppe_items) :
            ( /\ Known(StateOf(call.pre, call.track_id, item))
              /\ HasObs(call.obs, item, PyStr(EnumValueUNKNOWN)) )
            => StateOf(tracked_persons, call.track_id, item) = StateOf(call.pre, call.track_id, item)

C1_Witness ==
    /\ call.op = "update"
    /\ Known(StateOf(call.pre, call.track_id, "helmet"))
    /\ HasObs(call.obs, "helmet", PyStr(EnumValueUNKNOWN))
    /\ call.exc = "none"

\* C2 (no UNKNOWN regression): in every step, a record that exists before and
\* after the step keeps every item that was COMPLIANT or NON_COMPLIANT at
\* COMPLIANT or NON_COMPLIANT.
C2_NoUnknownRegression ==
    [][\A track_id \in Keys(tracked_persons) \cap Keys(tracked_persons') :
         \A item \in DOMAIN Person(tracked_persons, track_id).ppe_status :
            Known(Person(tracked_persons, track_id).ppe_status[item])
            => Known(StateOf(tracked_persons', track_id, item))]_vars

C2_Witness ==
    /\ call.op = "update"
    /\ call.obs # <<>>
    /\ \E item \in SeqRange(ppe_items) :
          /\ StateOf(call.pre, call.track_id, item) = "COMPLIANT"
          /\ StateOf(tracked_persons, call.track_id, item) = "NON_COMPLIANT"

\* The observation value v reads, after normalisation, as the member m.
Reads(v, m) == v.py = "str" /\ Upper(v.s) = EnumValue(m)

\* The last COMPLIANT or NON_COMPLIANT observation of a sequence, UNKNOWN without one.
RECURSIVE LastKnown(_)
LastKnown(observations) ==
    IF observations = <<>> THEN "UNKNOWN"
    ELSE LET last == observations[Len(observations)]
         IN IF Reads(last, "COMPLIANT") THEN "COMPLIANT"
            ELSE IF Reads(last, "NON_COMPLIANT") THEN "NON_COMPLIANT"
            ELSE LastKnown(SubSeq(observations, 1, Len(observations) - 1))

\* C3 (toggle correctness): a record created by the first observation of a
\* sequence has, after the sequence, the last COMPLIANT or NON_COMPLIANT
\* observation as its state, and UNKNOWN without one; [COMPLIANT,
\* NON_COMPLIANT, COMPLIANT] ends COMPLIANT and [UNKNOWN, UNKNOWN] ends UNKNOWN.
C3_ToggleCorrectness ==
    fed # <<>> =>
        /\ StateOf(tracked_persons, 1, "helmet") = LastKnown(fed)
        /\ (fed = <<PyStr(EnumValueCOMPLIANT), PyStr(EnumValueNON_COMPLIANT), PyStr(EnumValueCOMPLIANT)>>
              => StateOf(tracked_persons, 1, "helmet") = "COMPLIANT")
        /\ (fed = <<PyStr(EnumValueUNKNOWN), PyStr(EnumValueUNKNOWN)>>
              => StateOf(tracked_persons, 1, "helmet") = "UNKNOWN")

C3_Witness ==
    /\ fed = <<PyStr(EnumValueCOMPLIANT), PyStr(EnumValueNON_COMPLIANT), PyStr(EnumValueCOMPLIANT)>>
    /\ todo = <<>>
    /\ StateOf(tracked_persons, 1, "helmet") = "COMPLIANT"

\* C4 (key-set invariant): every record maps exactly the items of ppe_items,
\* each to UNKNOWN, COMPLIANT or NON_COMPLIANT, and so does every entry a
\* snapshot returns.
C4_KeySetInvariant ==
    /\ \A i \in DOMAIN tracked_persons :
          /\ DOMAIN tracked_persons[i].ppe_status = SeqRange(ppe_items)
          /\ \A item \in SeqRange(ppe_items) : tracked_persons[i].ppe_status[item] \in ComplianceState
    /\ \A i \in DOMAIN call.ret : DOMAIN call.ret[i].ppe_status = SeqRange(ppe_items)

C4_Witness ==
    /\ call.op = "update"
    /\ call.exc = "none"
    /\ HasObs(call.obs, UnmonitoredItem, PyStr(EnumValueCOMPLIANT))
    /\ call.track_id \in Keys(tracked_persons)
    /\ UnmonitoredItem \notin DOMAIN Person(tracked_persons, call.track_id).ppe_status

\* An observation that is ignored: for an unmonitored item, or with a value
\* that is not COMPLIANT, NON_COMPLIANT or UNKNOWN in any letter case.
Malformed(items, item, v) ==
    \/ item \notin SeqRange(items)
    \/ v.py # "str"
    \/ EnumLookup(Upper(v.s)) = "ValueError"

\* The state of the item before the update: a record the update creates starts at UNKNOWN.
StateBefore(persons, items, track_id, item) ==
    IF track_id \in Keys(persons) THEN StateOf(persons, track_id, item)
    ELSE IF item \in SeqRange(items) THEN "UNKNOWN" ELSE "absent"

\* C5 (malformed observations are ignored): every update ends without an
\* exception; a malformed observation leaves its item as it was, and every
\* well-formed observation of the same update is applied.
C5_MalformedIgnored ==
    call.op = "update" =>
        /\ call.exc = "none"
        /\ \A k \in DOMAIN call.obs :
              LET item == call.obs[k][1]
                  v == call.obs[k][2]
                  before == StateBefore(call.pre, ppe_items, call.track_id, item)
              IN StateOf(tracked_persons, call.track_id, item) =
                    IF Malformed(ppe_items, item, v) THEN before
                    ELSE StickyUpdate(before, EnumLookup(Upper(v.s)))

\* C6 (prune): after remove_stale_tracks(active_track_ids) the record ids are
\* the earlier ids that are in active_track_ids, and every remaining record
\* is the record it was.
C6_PruneExact ==
    call.op = "prune" =>
        /\ Keys(tracked_persons) = Keys(call.pre) \cap call.active
        /\ \A track_id \in Keys(tracked_persons) :
              Person(tracked_persons, track_id) = Person(call.pre, track_id)
        /\ Len(tracked_persons) = Cardinality(Keys(tracked_persons))

C6_Witness ==
    /\ call.op = "prune"
    /\ Keys(call.pre) = {1, 2}
    /\ call.active = {2}
    /\ Keys(tracked_persons) = {2}
    /\ Known(StateOf(tracked_persons, 2, "helmet"))


\* The ids of a snapshot.
SnapshotIds(statuses) == {statuses[i].track_id : i \in DOMAIN statuses}

\* A frame has been processed and its output emitted; the loop variables are that frame's.
FrameDone == pc \in {"loop", "finished"} /\ emitted > 0

\* C7 (pruning in the frame loop): the snapshot emitted for a frame, and the
\* records kept after it, hold only ids that the tracker reported in that
\* frame; a record held before the frame whose id the tracker does not report
\* is in neither.
C7_SnapshotWithinTrackerOutput ==
    FrameDone =>
        /\ log_output.frame_number = frame_num - 1
        /\ SnapshotIds(log_output.compliance_status) \subseteq ActiveTrackIds(tracked_objects)
        /\ Keys(tracked_persons) \subseteq ActiveTrackIds(tracked_objects)
        /\ \A id \in frame_io.records_before \ ActiveTrackIds(tracked_objects) :
              id \notin SnapshotIds(log_output.compliance_status)
        /\ log_output.active_tracks = Cardinality(SnapshotIds(log_output.compliance_status))

C7_Witness ==
    /\ FrameDone
    /\ \E id \in frame_io.records_before :
          /\ id \notin ActiveTrackIds(tracked_objects)
          /\ id \notin SnapshotIds(log_output.compliance_status)
    /\ tracked_objects # <<>>

\* The configuration of the end-to-end scenario.
ScenarioConfig ==
    /\ ppe_items = <<"helmet">>
    /\ tracker_config.min_hits = 1
    /\ tracker_config.max_age = 2

\* The snapshot holds track 1 alone, with helmet in `state`.
SnapshotIsTrack1(state) ==
    log_output.compliance_status = <<[track_id |-> 1, ppe_status |-> [item \in {"helmet"} |-> state]]>>

\* What the scenario says frame k emits.
ScenarioOutput(k) ==
    /\ log_output.frame_number = k - 1
    /\ CASE k = 1 -> ActiveTrackIds(tracked_objects) = {1} /\ SnapshotIsTrack1(EnumValueUNKNOWN)
         [] k \in {2, 3, 4} -> ActiveTrackIds(tracked_objects) = {1} /\ SnapshotIsTrack1(EnumValueCOMPLIANT)
         [] k = 5 -> tracked_objects = <<>> /\ log_output.compliance_status = <<>>
         [] OTHER -> FALSE

\* C8 as stated (end-to-end scenario): with ppe_items = [helmet], min_hits = 1,
\* max_age = 2, a detection in frame 1 observed UNKNOWN, a nearby detection in
\* frame 2 observed COMPLIANT and no detection in frames 3, 4, 5, each frame
\* emits what the scenario says, whatever the verifier answers in frames 3 and 4.
C8_ScenarioAsStated ==
    (ScenarioConfig /\ FrameDone /\ scenario.stated \in 1..5) => ScenarioOutput(scenario.stated)

\* C8 (end-to-end scenario, amended): the same, when in frames 3 and 4 the
\* verifier does not answer NON_COMPLIANT for the track.
C8_EndToEndScenario ==
    (ScenarioConfig /\ FrameDone /\ scenario.amended \in 1..5) => ScenarioOutput(scenario.amended)

C8_Witness ==
    /\ ScenarioConfig
    /\ FrameDone
    /\ scenario.amended = 5
    /\ frame_io.records_before = {1}
    /\ tracker.trackers = <<>>

\* The ids of the tracks a tracker holds.
TrackIds(trk) == {trk.trackers[i].id : i \in DOMAIN trk.trackers}

TrackOf(trk, id) == trk.trackers[CHOOSE i \in DOMAIN trk.trackers : trk.trackers[i].id = id]

\* The ids the association of the last step matched to a detection.
MatchedIds == {p[1] : p \in frame_io.matched}

\* C9 (track id stability under occlusion): over a step, a track that is
\* matched keeps its id, whatever number of steps (at most max_age) it went
\* unmatched; an unmatched track stays, with its id, while its
\* time_since_update is at most max_age, and is gone after the step in which
\* it exceeds max_age; no track held is DEAD or past max_age; every track
\* created in the step has an id no track had before (ids are given out in
\* increasing order from next_id), so a removed id does not come back.
C9_TrackIdStability ==
    FrameDone =>
        LET before == frame_io.before
            max_age == tracker_config.max_age
        IN /\ \A t \in SeqRange(before.trackers) :
                 IF t.id \in MatchedIds
                 THEN /\ t.id \in TrackIds(tracker)
                      /\ TrackOf(tracker, t.id).time_since_update = 0
                 ELSE IF t.time_since_update + 1 <= max_age
                 THEN /\ t.id \in TrackIds(tracker)
                      /\ TrackOf(tracker, t.id).time_since_update = t.time_since_update + 1
                 ELSE t.id \notin TrackIds(tracker)
           /\ \A t \in SeqRange(tracker.trackers) :
                 /\ t.time_since_update <= max_age
                 /\ t.lifecycle_state # "DEAD"
           /\ TrackIds(before) \subseteq 1..(before.next_id - 1)
           /\ TrackIds(tracker) \ TrackIds(before) = before.next_id..(tracker.next_id - 1)
           /\ Cardinality(TrackIds(tracker) \ TrackIds(before)) =
                 Len(frame_io.detections) - Cardinality(frame_io.matched)
           /\ Cardinality(TrackIds(tracker)) = Len(tracker.trackers)

\* A track unmatched for max_age steps is matched again and keeps its id.
C9_Witness ==
    /\ FrameDone
    /\ tracker_config.max_age = 2
    /\ \E t \in SeqRange(frame_io.before.trackers) :
          /\ t.time_since_update = 2
          /\ t.id \in MatchedIds
          /\ t.id \in TrackIds(tracker)
          /\ TrackOf(tracker, t.id).time_since_update = 0

\* A track that no detection was matched to since the one that created it.
NeverMatchedAgain(t) == t.time_since_update = t.age - 1

\* C10 (confirmation gating): the tracker output holds only CONFIRMED tracks;
\* a track that is CONFIRMED after a step and was not before it has
\* hit_streak >= min_hits; with min_hits = 3 a track that was never matched
\* after its creation is not in the output.
C10_ConfirmationGating ==
    FrameDone =>
        /\ \A id \in ActiveTrackIds(tracked_objects) :
              /\ id \in TrackIds(tracker)
              /\ TrackOf(tracker, id).lifecycle_state = "CONFIRMED"
        /\ \A t \in SeqRange(tracker.trackers) :
              ( /\ t.lifecycle_state = "CONFIRMED"
                /\ \/ t.id \notin TrackIds(frame_io.before)
                   \/ TrackOf(frame_io.before, t.id).lifecycle_state = "TENTATIVE" )
              => t.hit_streak >= tracker_config.min_hits
        /\ tracker_config.min_hits = 3 =>
              \A t \in SeqRange(tracker.trackers) :
                  NeverMatchedAgain(t) => t.id \notin ActiveTrackIds(tracked_objects)

C10_Witness ==
    /\ FrameDone
    /\ tracker_config.min_hits = 3
    /\ \E t \in SeqRange(tracker.trackers) :
          /\ t.age = 2
          /\ NeverMatchedAgain(t)
          /\ t.lifecycle_state = "TENTATIVE"
          /\ t.id \notin ActiveTrackIds(tracked_objects)

\* One step of the opened loop: either a frame is processed and its record,
\* numbered with the frame's index and above the last record's number, is
\* emitted, or the source is exhausted and the loop is left without error,
\* emitting nothing more.
FrameOrEndStep ==
    pc = "loop" =>
        \/ /\ pc' = "loop"
           /\ frame_num' = frame_num + 1
           /\ emitted' = emitted + 1
           /\ log_output'.frame_number = frame_num
           /\ log_output'.frame_number > log_output.frame_number
           /\ frame_io'.before = tracker
           /\ frame_io'.records_before = Keys(tracked_persons)
        \/ /\ pc' = "finished"
           /\ emitted' = emitted
           /\ log_output' = log_output
           /\ frame_num' = frame_num

\* C11 (per-frame output and termination): while the loop runs and after it
\* has ended, the number of records emitted is the number of frames read;
\* every step of the loop is one whole frame, which starts from the state the
\* frame before it left and emits one record with the next frame_number, or
\* the end of the source, which ends the loop without error.
C11_PerFrameOutput ==
    /\ [](pc \in {"loop", "finished"} => emitted = frame_num)
    /\ [][FrameOrEndStep]_vars

C11_Witness ==
    /\ pc = "finished"
    /\ emitted = 3
    /\ log_output.frame_number = 2

\* C12 (detection sampling): the detector was invoked for the frame just
\* processed exactly when the frame's number is a multiple of
\* run_detection_every_n_frames, so for frame 0 always; in a frame without
\* the detector the tracker step received no detection; in every frame the
\* tracker after the frame is one step of the tracker before it on the
\* detections the frame supplied.
C12_DetectionSampling ==
    FrameDone =>
        /\ frame_io.invoked <=> (log_output.frame_number % run_detection_every_n_frames = 0)
        /\ log_output.frame_number = 0 => frame_io.invoked
        /\ ~frame_io.invoked => (frame_io.detections = <<>> /\ frame_io.matched = {})
        /\ tracker = Sort_update(frame_io.before, frame_io.detections, tracker_config).tracker
        /\ tracked_objects = Sort_update(frame_io.before, frame_io.detections, tracker_config).tracked_objects
        /\ \A t \in SeqRange(tracker.trackers) :
              t.age = IF t.id \in TrackIds(frame_io.before)
                      THEN TrackOf(frame_io.before, t.id).age + 1 ELSE 1

C12_Witness ==
    /\ FrameDone
    /\ run_detection_every_n_frames = 2
    /\ log_output.frame_number = 3
    /\ ~frame_io.invoked
    /\ frame_io.detections = <<>>
    /\ \E t \in SeqRange(tracker.trackers) : t.time_since_update = 1 /\ t.age = 2

\* The crop main() takes for a tracked object has no pixel.
ZeroAreaCrop(o) ==
    ArraySize(crop_bbox_from_frame([h |-> FrameH, w |-> FrameW],
                                   o.bbox)) = 0

\* The ids the verifier was called for in the last frame.
ObservedIds(io) == {io.observed[i].track_id : i \in DOMAIN io.observed}

ObservationOf(io, id) ==
    io.observed[CHOOSE i \in DOMAIN io.observed : io.observed[i].track_id = id].obs

\* A frame step, for each object the tracker reports in it.
ZeroAreaStep ==
    (pc = "loop" /\ frame_num' = frame_num + 1) =>
        /\ pc' = "loop"
        /\ \A i \in DOMAIN tracked_objects' :
              LET o == tracked_objects'[i]
                  id == o.track_id
              IN IF ZeroAreaCrop(o)
                 THEN /\ id \notin ObservedIds(frame_io')
                      /\ id \in Keys(tracked_persons) <=> id \in Keys(tracked_persons')
                      /\ id \in Keys(tracked_persons) =>
                            Person(tracked_persons', id) = Person(tracked_persons, id)
                 ELSE /\ id \in ObservedIds(frame_io')
                      /\ id \in Keys(tracked_persons')
                      /\ Person(tracked_persons', id).ppe_status =
                            update_ppe_status(IF id \in Keys(tracked_persons)
                                              THEN Person(tracked_persons, id).ppe_status
                                              ELSE NewPpeStatus(ppe_items),
                                              ObservationOf(frame_io', id)).ppe_status

\* C13 (zero-area crop): in every frame, for a reported track whose crop has
\* zero area the verifier is not called and no error is raised, a record the
\* track had before the frame is the same after it (and none is created);
\* every other reported track of the frame is observed and its record
\* updated with the observation.
C13_ZeroAreaCrop == [][ZeroAreaStep]_vars

C13_Witness ==
    /\ FrameDone
    /\ \E i, j \in DOMAIN tracked_objects :
          /\ ZeroAreaCrop(tracked_objects[i])
          /\ tracked_objects[i].track_id \in frame_io.records_before
          /\ tracked_objects[i].track_id \in Keys(tracked_persons)
          /\ tracked_objects[i].track_id \notin ObservedIds(frame_io)
          /\ i < j
          /\ tracked_objects[j].track_id \in ObservedIds(frame_io)

\* A box of float coordinates lies fully outside the frame: left of x = 0,
\* above y = 0, right of the frame's width or below its height.
LeftOfFrame(bbox) == bbox[3] <= 0

AboveFrame(bbox) == bbox[4] <= 0

RightOfFrame(bbox) == bbox[1] >= ToFloat(FrameW)

BelowFrame(bbox) == bbox[2] >= ToFloat(FrameH)

FullyOutside(bbox) ==
    LeftOfFrame(bbox) \/ AboveFrame(bbox) \/ RightOfFrame(bbox) \/ BelowFrame(bbox)

\* C14 (out-of-frame boxes): the crop of every box that lies fully outside
\* the frame, on any side, has zero area.
C14_OutsideBoxZeroArea ==
    (crop.op = "crop" /\ FullyOutside(crop.bbox)) => ArraySize(crop.shape) = 0

\* The part of C14 that the code keeps: a box fully right of or below the
\* frame, and not left of or above it, has a crop of zero area; and no crop
\* is larger than the frame.
C14_RightOrBelowZeroArea ==
    crop.op = "crop" =>
        /\ ( /\ RightOfFrame(crop.bbox) \/ BelowFrame(crop.bbox)
             /\ crop.bbox[3] > -FloatDen
             /\ crop.bbox[4] > -FloatDen )
           => ArraySize(crop.shape) = 0
        /\ crop.shape.h <= FrameH
        /\ crop.shape.w <= FrameW

\* C15 (failure surfacing): when the loop has ended with an exception raised
\* while frame number frame_num was processed, a report was printed and it
\* holds that frame number.
C15_FailureSurfacesFrame ==
    (pc = "error" /\ video = "opened") =>
        /\ error_report.handler # "none"
        /\ <<"frame_num", frame_num>> \in error_report.printed

\* C16 (fatal open failure): when the capture could not be opened, the run
\* has ended with the report of FileNotFoundError, and nothing was done for
\* any frame: no detector call, no tracker step, no verifier call, no record
\* created, nothing emitted.
C16_FatalOpenFailure ==
    video = "failed" =>
        /\ pc = "error"
        /\ error_report = main_handler(FileNotFoundError)
        /\ error_report.handler = "FileNotFoundError"
        /\ frame_num = 0
        /\ emitted = 0
        /\ log_output = NoLogOutput
        /\ frame_io = NoFrameIo
        /\ tracker = NoTracker
        /\ tracked_objects = <<>>
        /\ tracked_persons = <<>>

C16_Witness ==
    /\ video = "failed"
    /\ pc = "error"
    /\ error_report.handler = "FileNotFoundError"

\* C17 (emitted record consistency): in the record emitted for a frame,
\* active_tracks is the number of tracks the tracker reported for the frame
\* and compliance_status has exactly one entry for each of them.
C17_RecordMatchesTrackerOutput ==
    FrameDone =>
        /\ log_output.active_tracks = Len(tracked_objects)
        /\ SnapshotIds(log_output.compliance_status) = ActiveTrackIds(tracked_objects)
        /\ Len(log_output.compliance_status) = Cardinality(ActiveTrackIds(tracked_objects))

\* The part of C17 that the code keeps: active_tracks counts the entries of
\* compliance_status, one for each reported track that has a record; a
\* reported track without an entry is one whose crop is empty in this frame
\* and that had no record before it.
C17_RecordCountsRecords ==
    FrameDone =>
        /\ log_output.active_tracks = Len(log_output.compliance_status)
        /\ Len(log_output.compliance_status) = Cardinality(SnapshotIds(log_output.compliance_status))
        /\ SnapshotIds(log_output.compliance_status) = Keys(tracked_persons)
        /\ \A i \in DOMAIN tracked_objects :
              tracked_objects[i].track_id \notin SnapshotIds(log_output.compliance_status)
              => /\ ZeroAreaCrop(tracked_objects[i])
                 /\ tracked_objects[i].track_id \notin frame_io.records_before

\* The member an observation value reads as, "none" when it reads as none.
ReadsAs(v) == IF v.py = "str" THEN EnumLookup(Upper(v.s)) ELSE "none"

\* C18 (lazy creation): after update(id, observations) the id has a record
\* over the monitored items; when it had none before (never had, or lost it
\* to a prune), the record is what the observations make of a record with
\* every item UNKNOWN, so each item is UNKNOWN or a state this call observed;
\* when it had one, the record is what the observations make of that record,
\* and an item without a COMPLIANT or NON_COMPLIANT observation is as it was.
C18_LazyCreation ==
    call.op = "update" =>
        LET id == call.track_id
            created == id \notin Keys(call.pre)
            start == IF created THEN [item \in SeqRange(ppe_items) |-> "UNKNOWN"]
                     ELSE Person(call.pre, id).ppe_status
        IN /\ id \in Keys(tracked_persons)
           /\ DOMAIN Person(tracked_persons, id).ppe_status = SeqRange(ppe_items)
           /\ Person(tracked_persons, id).ppe_status = update_ppe_status(start, call.obs).ppe_status
           /\ \A item \in SeqRange(ppe_items) :
                 \/ StateOf(tracked_persons, id, item) = start[item]
                 \/ \E k \in DOMAIN call.obs :
                       /\ call.obs[k][1] = item
                       /\ Known(ReadsAs(call.obs[k][2]))
                       /\ ReadsAs(call.obs[k][2]) = StateOf(tracked_persons, id, item)

\* A record is created next to a record that has left UNKNOWN, by an update
\* that leaves the new record's helmet UNKNOWN.
C18_Witness ==
    /\ call.op = "update"
    /\ call.exc = "none"
    /\ call.track_id \notin Keys(call.pre)
    /\ \E other \in Keys(call.pre) : Known(StateOf(call.pre, other, "helmet"))
    /\ call.obs # <<>>
    /\ StateOf(tracked_persons, call.track_id, "helmet") = "UNKNOWN"

\* Two strings differ at most in letter case.
SameButCase(a, b) ==
    /\ Len(a) = Len(b)
    /\ \A i \in DOMAIN a :
          \/ a[i] = b[i]
          \/ \E j \in DOMAIN LowerChars : {a[i], b[i]} = {LowerChars[j], UpperChars[j]}

\* The upper-case name a value differs from at most in case; the value
\* itself when there is none.
Normalized(v) ==
    IF v.py = "str" /\ \E m \in ComplianceState : SameButCase(v.s, EnumValue(m))
    THEN PyStr(EnumValue(CHOOSE m \in ComplianceState : SameButCase(v.s, EnumValue(m))))
    ELSE v

UpperObs(obs) == [k \in DOMAIN obs |-> <<obs[k][1], Normalized(obs[k][2])>>]

\* An observation value is not an upper-case name but differs from one only in case.
OtherCase(v) == v.py = "str" /\ Normalized(v) # v

\* C19 (case normalization): an update leaves the records that the same
\* update with its values in upper case leaves; every state stored is a
\* member of ComplianceState and every state a snapshot returns is the
\* upper-case name of one.
C19_CaseNormalization ==
    /\ call.op = "update" =>
          tracked_persons = update_person_state(call.pre, ppe_items, call.track_id,
                                                UpperObs(call.obs)).persons
    /\ \A i \in DOMAIN tracked_persons : \A item \in DOMAIN tracked_persons[i].ppe_status :
          tracked_persons[i].ppe_status[item] \in ComplianceState
    /\ call.op = "snapshot" =>
          \A i \in DOMAIN call.ret : \A item \in DOMAIN call.ret[i].ppe_status :
              call.ret[i].ppe_status[item] \in
                  {EnumValueUNKNOWN, EnumValueCOMPLIANT, EnumValueNON_COMPLIANT}

\* A mixed-case NON_COMPLIANT turns a COMPLIANT helmet to NON_COMPLIANT.
C19_Witness ==
    /\ call.op = "update"
    /\ call.exc = "none"
    /\ \E k \in DOMAIN call.obs :
          /\ call.obs[k][1] = "helmet"
          /\ OtherCase(call.obs[k][2])
          /\ ReadsAs(call.obs[k][2]) = "NON_COMPLIANT"
    /\ StateOf(call.pre, call.track_id, "helmet") = "COMPLIANT"
    /\ StateOf(tracked_persons, call.track_id, "helmet") = "NON_COMPLIANT"

\* The items that are keys of an observation dict.
ObservedItems(obs) == {obs[k][1] : k \in DOMAIN obs}

\* C20 (update frame effect): an update leaves every record of another id as
\* it was, adds at most the record of its id, keeps the order of the records,
\* and leaves every item of its id that is no key of the observations as it
\* was (UNKNOWN in a record it creates); a snapshot leaves every record as it
\* was.
C20_UpdateFrameEffect ==
    /\ call.op = "update" =>
          /\ Keys(tracked_persons) = Keys(call.pre) \cup {call.track_id}
          /\ \A i \in DOMAIN call.pre :
                /\ tracked_persons[i].track_id = call.pre[i].track_id
                /\ call.pre[i].track_id # call.track_id => tracked_persons[i] = call.pre[i]
          /\ Len(tracked_persons) = Cardinality(Keys(tracked_persons))
          /\ \A item \in SeqRange(ppe_items) \ ObservedItems(call.obs) :
                StateOf(tracked_persons, call.track_id, item) =
                    StateBefore(call.pre, ppe_items, call.track_id, item)
    /\ call.op = "snapshot" => tracked_persons = call.pre

\* An update changes one of two items of a record, next to no other record
\* or to one that has left UNKNOWN.
C20_Witness ==
    /\ call.op = "update"
    /\ call.exc = "none"
    /\ call.track_id \in Keys(call.pre)
    /\ Person(tracked_persons, call.track_id) # Person(call.pre, call.track_id)
    /\ \/ /\ ppe_items = <<"helmet", "glasses">>
          /\ ObservedItems(call.obs) = {"glasses"}
          /\ Known(StateOf(call.pre, call.track_id, "helmet"))
       \/ \E other \in Keys(call.pre) \ {call.track_id} : Known(StateOf(call.pre, other, "helmet"))

=============================================================================
